---------------------------- MODULE Spec2Model ----------------------------
(***************************************************************************)
(* A model of generate_post.py: the briefing-to-HTML converter and index   *)
(* rebuilder of the Tucson Daily Brief site.                               *)
(*                                                                         *)
(* Text is a sequence of Unicode code points, so that str.replace, strip,  *)
(* split and the regular expressions of the source are computed character  *)
(* by character as Python computes them.                                   *)
(*                                                                         *)
(* Four specifications share the variables:                                *)
(*   Spec       runs of main() on a site whose posts/ directory is filled  *)
(*              by main() alone;                                           *)
(*   SpecMixed  the same runs on a posts/ directory that also holds files  *)
(*              main() did not write;                                      *)
(*   SpecText   the pure text functions applied to bounded inputs;         *)
(*   SpecWalk   the line walk of md_to_html, one loop iteration per step.  *)
(***************************************************************************)
EXTENDS Integers, Sequences, FiniteSets, TLC

VARIABLES
    files,        \* posts/ directory: file stem (text) -> file content (text)
    dir_exists,   \* whether posts/ exists
    index,        \* index.html as last written: sequence of list items
    run,          \* what the last run of main() did (its locals and its exit)
    text,         \* SpecText, SpecWalk: the input text
    fn,           \* SpecText, SpecWalk: the function that was applied
    result,       \* SpecText, SpecWalk: what it returned
    lines,        \* SpecWalk: md_to_html's lines
    i,            \* SpecWalk: md_to_html's i (0-based, as in the source)
    end,          \* SpecWalk: md_to_html's end
    html_parts,   \* SpecWalk: md_to_html's html_parts
    covered,      \* SpecWalk: for each part, its kind and the first and last line index it was built from
    pc            \* SpecWalk: "start" at the call, "walk" in the while loop, "done" after it

vars == <<files, dir_exists, index, run, text, fn, result,
          lines, i, end, html_parts, covered, pc>>

siteVars == <<files, dir_exists, index, run>>
textVars == <<text, fn, result>>
walkVars == <<lines, i, end, html_parts, covered, pc>>

---------------------------------------------------------------------------
(* Bounds of the model. *)

\* longest text of SpecText's exhaustive inputs
MaxLen == 5
\* most lines of a document of SpecWalk
MaxLines == 3
\* how far past the 120-character limit the long bold spans of SpecText go
MaxOver == 2
\* most files in posts/ that main() did not write (SpecMixed)
MaxForeign == 1

---------------------------------------------------------------------------
(* Characters. *)

NL == 10          \* "\n"
SPACE == 32
QUOT == 34        \* '"'
AMP == 38         \* "&"
STAR == 42        \* "*"
HYPHEN == 45      \* "-"
DOT == 46         \* "."
LT == 60          \* "<"
GT == 62          \* ">"
BOXDASH == 9472   \* U+2500, the box-drawing dash of the rule regex
NEWSPAPER == 128240   \* U+1F4F0
PAGE == 128196        \* U+1F4C4

\* str.strip() with no argument strips the characters str.isspace() accepts
Whitespace ==
    {9, 10, 11, 12, 13, 28, 29, 30, 31, 32, 133, 160, 5760} \cup (8192..8202)
        \cup {8232, 8233, 8239, 8287, 12288}

\* the character class [\U0001f300-\U0001faff\u2600-\u27bf\ufe0f]
IsPictograph(c) ==
    \/ c \in 127744..129791
    \/ c \in 9728..10175
    \/ c = 65039

\* \d of the date regex, on the ASCII digits the model feeds it
IsDigit(c) == c \in 48..57

TitlePrefix == <<84,117,99,115,111,110,32,68,97,105,108,121,32,66,114,105,101,102>>   \* "Tucson Daily Brief"
FooterSaved == <<66,114,105,101,102,105,110,103,32,115,97,118,101,100,58>>   \* "Briefing saved:"
FooterFetched == <<83,111,117,114,99,101,115,32,102,101,116,99,104,101,100,58>>   \* "Sources fetched:"
FooterFailed == <<70,97,105,108,101,100,32,115,111,117,114,99,101,115,58>>   \* "Failed sources:"
FooterNext == <<78,101,120,116,32,117,112,100,97,116,101,58>>   \* "Next update:"
BoldMark == <<42,42>>   \* "**"
StrongOpen == <<60,115,116,114,111,110,103,62>>   \* "<strong>"
StrongClose == <<60,47,115,116,114,111,110,103,62>>   \* "</strong>"
LedeTagOpen == <<60,112,32,99,108,97,115,115,61,34,112,111,115,116,45,108,101,100,101,34>>   \* '<p class="post-lede"'
PClose == <<60,47,112,62>>   \* "</p>"
POpen == <<60,112,62>>   \* "<p>"
SourceOpen == <<60,112,32,99,108,97,115,115,61,34,115,111,117,114,99,101,34,62>>   \* '<p class="source">'
H2Open == <<60,104,50,62>>   \* "<h2>"
H2Close == <<60,47,104,50,62>>   \* "</h2>"
HrTag == <<60,104,114,62>>   \* "<hr>"
EntAmp == <<38,97,109,112,59>>   \* "&amp;"
EntLt == <<38,108,116,59>>   \* "&lt;"
EntGt == <<38,103,116,59>>   \* "&gt;"
EntQuot == <<38,113,117,111,116,59>>   \* "&quot;"
Ellipsis == <<46,46,46>>   \* "..."

---------------------------------------------------------------------------
(* Python's string operations. *)

\* s[p:] starts with pat (p is 1-based)
StartsAt(s, pat, p) ==
    /\ p >= 1
    /\ p + Len(pat) - 1 <= Len(s)
    /\ \A k \in 1..Len(pat) : s[p + k - 1] = pat[k]

\* str.startswith
StartsWith(s, pat) == StartsAt(s, pat, 1)

\* str.endswith
EndsWith(s, pat) == StartsAt(s, pat, Len(s) - Len(pat) + 1)

\* the least element of a non-empty set of positions
MinOf(S) == CHOOSE x \in S : \A y \in S : x <= y

\* str.find(pat, p): the first position at or after p where pat occurs, or 0
FindFrom(s, pat, p) ==
    LET hits == {q \in p..(Len(s) - Len(pat) + 1) : StartsAt(s, pat, q)}
    IN  IF hits = {} THEN 0 ELSE MinOf(hits)

\* the first position of a character not in drop, or 0
FirstKept(s, drop) ==
    LET keep == {q \in 1..Len(s) : s[q] \notin drop}
    IN  IF keep = {} THEN 0 ELSE MinOf(keep)

\* the last position of a character not in drop, or 0
LastKept(s, drop) ==
    LET back == {q \in 1..Len(s) : s[Len(s) + 1 - q] \notin drop}
    IN  IF back = {} THEN 0 ELSE Len(s) + 1 - MinOf(back)

\* str.strip()
Strip(s) ==
    LET a == FirstKept(s, Whitespace)
    IN  IF a = 0 THEN <<>> ELSE SubSeq(s, a, LastKept(s, Whitespace))

\* str.rstrip(".")
RStripDots(s) == SubSeq(s, 1, LastKept(s, {DOT}))

\* str.replace(old, new): the non-overlapping occurrences, left to right
RECURSIVE Replace(_, _, _)
Replace(s, old, new) ==
    LET p == FindFrom(s, old, 1)
    IN  IF p = 0 THEN s
        ELSE SubSeq(s, 1, p - 1) \o new
                 \o Replace(SubSeq(s, p + Len(old), Len(s)), old, new)

\* str.split("\n"): always at least one piece
RECURSIVE SplitLines(_)
SplitLines(s) ==
    LET p == FindFrom(s, <<NL>>, 1)
    IN  IF p = 0 THEN <<s>>
        ELSE <<SubSeq(s, 1, p - 1)>> \o SplitLines(SubSeq(s, p + 1, Len(s)))

\* sep.join(parts)
RECURSIVE Join(_, _)
Join(parts, sep) ==
    IF parts = <<>> THEN <<>>
    ELSE IF Len(parts) = 1 THEN parts[1]
    ELSE parts[1] \o sep \o Join(Tail(parts), sep)

---------------------------------------------------------------------------
(* The regular expressions open(.+?)close, as re.search finds them.  The   *)
(* group is lazy and "." does not match a newline, so from the leftmost    *)
(* start that can match at all, the group is the shortest non-empty        *)
(* newline-free run that close follows.                                    *)

NoMatch == [found |-> FALSE, start |-> 0, group |-> <<>>, next |-> 0]

\* the length of the lazy group (.+?) that starts at g, or 0 when close
\* never follows it on the line
GroupLen(s, g, close) ==
    LET nl == FindFrom(s, <<NL>>, g)
        last == IF nl = 0 THEN Len(s) ELSE nl - 1
        lens == {k \in 1..(last - g + 1) : StartsAt(s, close, g + k)}
    IN  IF lens = {} THEN 0 ELSE MinOf(lens)

MatchAt(s, p, g, close) ==
    LET k == GroupLen(s, g, close)
    IN  [found |-> TRUE, start |-> p, group |-> SubSeq(s, g, g + k - 1),
         next |-> g + k + Len(close)]

\* the leftmost start at or after p from which open(.+?)close matches
Search(s, open, close, p) ==
    LET starts == {q \in p..Len(s) :
                      /\ StartsAt(s, open, q)
                      /\ GroupLen(s, q + Len(open), close) > 0}
    IN  IF starts = {} THEN NoMatch
        ELSE MatchAt(s, MinOf(starts), MinOf(starts) + Len(open), close)

\* re.search(r"\*\*(.+?)\*\*", s)
SearchBold(s) == Search(s, BoldMark, BoldMark, 1)

\* re.search(r"<strong>(.+?)</strong>", s)
SearchStrong(s) == Search(s, StrongOpen, StrongClose, 1)

\* re.search(r'<p class="post-lede"[^>]*>(.+?)</p>', s): the greedy [^>]*
\* can only end at the first ">" after the literal
SearchLedeTag(s) ==
    LET gt(q) == FindFrom(s, <<GT>>, q + Len(LedeTagOpen))
        starts == {q \in 1..Len(s) :
                      /\ StartsAt(s, LedeTagOpen, q)
                      /\ gt(q) > 0
                      /\ GroupLen(s, gt(q) + 1, PClose) > 0}
    IN  IF starts = {} THEN NoMatch
        ELSE MatchAt(s, MinOf(starts), gt(MinOf(starts)) + 1, PClose)

---------------------------------------------------------------------------
(* escape, inline_format, extract_lede. *)

\* escape without the replacement of line 107
escape_NoQuot(t) ==
    Replace(Replace(Replace(t, <<AMP>>, EntAmp), <<LT>>, EntLt), <<GT>>, EntGt)

escape(t) ==
    Replace(Replace(Replace(Replace(t, <<AMP>>, EntAmp), <<LT>>, EntLt),
                    <<GT>>, EntGt), <<QUOT>>, EntQuot)

\* re.sub(r"\*\*(.+?)\*\*", r"<strong>\1</strong>", s)
RECURSIVE SubBold(_)
SubBold(s) ==
    LET m == SearchBold(s)
    IN  IF ~m.found THEN s
        ELSE SubSeq(s, 1, m.start - 1) \o StrongOpen \o m.group \o StrongClose
                 \o SubBold(SubSeq(s, m.next, Len(s)))

inline_format(t) == SubBold(escape(t))

LedeMax == 120
LedeCut == 117

\* Headline cutting at 120 characters instead of 117
Headline_CutAtMax(group) ==
    LET h == IF EndsWith(group, <<DOT>>) THEN SubSeq(group, 1, Len(group) - 1)
             ELSE group
    IN  IF Len(h) > LedeMax THEN SubSeq(h, 1, LedeMax) \o Ellipsis ELSE h

\* lines 123-130: the headline made of the first match's group
Headline(group) ==
    LET h == IF EndsWith(group, <<DOT>>) THEN SubSeq(group, 1, Len(group) - 1)
             ELSE group
    IN  IF Len(h) > LedeMax THEN SubSeq(h, 1, LedeCut) \o Ellipsis ELSE h

\* lines 120-131: the loop over the lines, from line n on
RECURSIVE FirstHeadline(_, _)
FirstHeadline(ls, n) ==
    IF n > Len(ls) THEN <<>>
    ELSE LET match == SearchBold(ls[n])
         IN  IF match.found THEN Headline(match.group)
             ELSE FirstHeadline(ls, n + 1)

extract_lede(t) ==
    FirstHeadline(SplitLines(Strip(t)), 1)

\* lines 249-255 of collect_existing_posts: the lede of one file's content
RecoverLede(content) ==
    LET lede_match == SearchLedeTag(content)
        strong_match == SearchStrong(content)
    IN  IF ~lede_match.found
        THEN IF strong_match.found THEN RStripDots(strong_match.group) ELSE <<>>
        ELSE lede_match.group

---------------------------------------------------------------------------
(* md_to_html.  Line indices are 0-based as in the source: lines[i] of the *)
(* source is ls[i + 1] here.                                               *)

\* line 38: the title line is skipped
StartIndex(ls) == IF ls # <<>> /\ StartsWith(ls[1], TitlePrefix) THEN 1 ELSE 0

\* lines 44-48
IsFooterLine(l) ==
    LET line == Strip(l)
    IN  \/ StartsWith(line, FooterSaved)
        \/ StartsWith(line, FooterFetched)
        \/ StartsWith(line, FooterFailed)
        \/ StartsWith(line, FooterNext)

\* ScanBack without the break of lines 50-51
RECURSIVE ScanBack_NoBreak(_, _, _)
ScanBack_NoBreak(ls, j, e) ==
    IF j < 0 THEN e
    ELSE IF IsFooterLine(ls[j + 1]) THEN ScanBack_NoBreak(ls, j - 1, j)
    ELSE ScanBack_NoBreak(ls, j - 1, e)

\* lines 43-51: for j in range(len(lines) - 1, -1, -1), with end so far e
RECURSIVE ScanBack(_, _, _)
ScanBack(ls, j, e) ==
    IF j < 0 THEN e
    ELSE IF IsFooterLine(ls[j + 1]) THEN ScanBack(ls, j - 1, j)
    ELSE e

EndBoundary(ls) == ScanBack(ls, Len(ls) - 1, Len(ls))

\* re.match(r"^[\u2500\-]{3,}$", line)
RuleRe(line) ==
    /\ Len(line) >= 3
    /\ \A k \in 1..Len(line) : line[k] \in {BOXDASH, HYPHEN}

\* line 68
IsCitation(line) ==
    StartsWith(line, <<NEWSPAPER>>) \/ StartsWith(line, <<PAGE>>)

\* re.match(r"^[\U0001f300-\U0001faff\u2600-\u27bf\ufe0f]", line)
HeadingRe(line) == Len(line) >= 1 /\ IsPictograph(line[1])

\* line 75
IsHeading(line) == HeadingRe(line) /\ ~StartsWith(line, BoldMark)

\* lines 85-89: what ends a paragraph
BreaksParagraph(next_line) ==
    \/ next_line = <<>>
    \/ IsCitation(next_line)
    \/ RuleRe(next_line)
    \/ HeadingRe(next_line)

\* lines 83-92: where the inner while loop leaves i
RECURSIVE ParagraphEnd(_, _, _)
ParagraphEnd(ls, j, e) ==
    IF j < e /\ ~BreaksParagraph(Strip(ls[j + 1]))
    THEN ParagraphEnd(ls, j + 1, e)
    ELSE j

\* line 69
CitationText(line) ==
    Strip(Replace(Replace(line, <<NEWSPAPER>>, <<>>), <<PAGE>>, <<>>))

Paragraph(ls, j, e) ==
    LET stop == ParagraphEnd(ls, j + 1, e)
        para_lines == [k \in 1..(stop - j) |-> Strip(ls[j + k])]
        para_text == Join(para_lines, <<SPACE>>)
    IN  [kind |-> "p", html |-> POpen \o inline_format(para_text) \o PClose,
         first |-> j, last |-> stop - 1, next |-> stop]

OneLine(kind, html, j) ==
    [kind |-> kind, html |-> html, first |-> j, last |-> j, next |-> j + 1]

\* Step with the tests of lines 68 and 75 in the other order
Step_HeadingFirst(ls, j, e) ==
    LET line == Strip(ls[j + 1])
    IN  IF line = <<>> THEN OneLine("blank", <<>>, j)
        ELSE IF RuleRe(line) THEN OneLine("hr", HrTag, j)
        ELSE IF IsHeading(line)
        THEN OneLine("h2", H2Open \o escape(line) \o H2Close, j)
        ELSE IF IsCitation(line)
        THEN OneLine("source", SourceOpen \o escape(CitationText(line)) \o PClose, j)
        ELSE Paragraph(ls, j, e)

\* lines 54-96: one iteration of the outer while loop, at i = j < end = e
Step(ls, j, e) ==
    LET line == Strip(ls[j + 1])
    IN  IF line = <<>> THEN OneLine("blank", <<>>, j)
        ELSE IF RuleRe(line) THEN OneLine("hr", HrTag, j)
        ELSE IF IsCitation(line)
        THEN OneLine("source", SourceOpen \o escape(CitationText(line)) \o PClose, j)
        ELSE IF IsHeading(line)
        THEN OneLine("h2", H2Open \o escape(line) \o H2Close, j)
        ELSE Paragraph(ls, j, e)

\* lines 53-96: html_parts from i = j on
RECURSIVE Parts(_, _, _)
Parts(ls, j, e) ==
    IF j >= e THEN <<>>
    ELSE LET s == Step(ls, j, e)
         IN  (IF s.kind = "blank" THEN <<>> ELSE <<s.html>>) \o Parts(ls, s.next, e)

md_to_html(t) ==
    LET ls == SplitLines(Strip(t))
    IN  Join(Parts(ls, StartIndex(ls), EndBoundary(ls)), <<NL>>)

---------------------------------------------------------------------------
(* Dates and file names. *)

\* the pattern \d{4}-\d{2}-\d{2} at position p of s
DateAt(s, p) ==
    /\ p + 9 <= Len(s)
    /\ \A k \in {0, 1, 2, 3, 5, 6, 8, 9} : IsDigit(s[p + k])
    /\ s[p + 4] = HYPHEN
    /\ s[p + 7] = HYPHEN

\* re.search(r"(\d{4}-\d{2}-\d{2})", stem): the group, or <<>> for no match
SearchDate(stem) ==
    LET hits == {p \in 1..Len(stem) : DateAt(stem, p)}
    IN  IF hits = {} THEN <<>>
        ELSE SubSeq(stem, MinOf(hits), MinOf(hits) + 9)

DigitsValue(s, from, to) ==
    LET RECURSIVE val(_)
        val(k) == IF k < from THEN 0 ELSE 10 * val(k - 1) + (s[k] - 48)
    IN  val(to)

DaysIn(y, m) ==
    IF m \in {4, 6, 9, 11} THEN 30
    ELSE IF m = 2
    THEN (IF ((y % 4) = 0 /\ (y % 100) # 0) \/ (y % 400) = 0 THEN 29 ELSE 28)
    ELSE 31

\* datetime.strptime(ds, "%Y-%m-%d"): the date, or a ValueError
strptime(ds) ==
    LET y == DigitsValue(ds, 1, 4)
        m == DigitsValue(ds, 6, 7)
        d == DigitsValue(ds, 9, 10)
    IN  IF y >= 1 /\ m \in 1..12 /\ d \in 1..DaysIn(y, m)
        THEN [ok |-> TRUE, date |-> <<y, m, d>>]
        ELSE [ok |-> FALSE, date |-> <<0, 0, 0>>]

\* dt.strftime("%Y-%m-%d"), for the four-digit years the model feeds it
post_slug(dt) ==
    LET digit(n) == 48 + (n % 10)
    IN  <<digit(dt[1] \div 1000), digit(dt[1] \div 100), digit(dt[1] \div 10),
          digit(dt[1]), HYPHEN, digit(dt[2] \div 10), digit(dt[2]), HYPHEN,
          digit(dt[3] \div 10), digit(dt[3])>>

\* a < b for dates
DateBefore(a, b) ==
    \/ a[1] < b[1]
    \/ a[1] = b[1] /\ a[2] < b[2]
    \/ a[1] = b[1] /\ a[2] = b[2] /\ a[3] < b[3]

ArticleOpen == <<60,97,114,116,105,99,108,101,32,105,100,61,34>>   \* '<article id="'
ArticleMid == <<34,62,10>>   \* '">\n'
ArticleClose == <<10,60,47,97,114,116,105,99,108,101,62,10>>   \* "\n</article>\n"

\* the page of a post: of the fixed template only the article element is
\* kept (the rest holds no <strong> and no post-lede tag)
render_post(date, body_html) ==
    ArticleOpen \o post_slug(date) \o ArticleMid \o body_html \o ArticleClose

\* the list items of the index page, in order; no items is the placeholder
render_index(posts) ==
    [exists |-> TRUE,
     items |-> [k \in 1..Len(posts) |->
                   [date |-> posts[k].date, href |-> posts[k].slug,
                    lede |-> escape(posts[k].lede)]]]

---------------------------------------------------------------------------
(* collect_existing_posts and main. *)

\* the orders in which glob may yield the files named S
RECURSIVE Orders(_)
Orders(S) ==
    IF S = {} THEN {<<>>}
    ELSE UNION {{<<x>> \o o : o \in Orders(S \ {x})} : x \in S}

GlobOrders(fs) == Orders(DOMAIN fs)

\* lines 243-256, for one file: it is skipped, or strptime raises, or it
\* gives a post record
FileRecord(stem, content) ==
    LET ds == SearchDate(stem)
        dt == strptime(ds)
    IN  IF ds = <<>> THEN [kind |-> "skip"]
        ELSE IF ~dt.ok THEN [kind |-> "raise"]
        ELSE [kind |-> "post",
              post |-> [date |-> dt.date, slug |-> post_slug(dt.date),
                        lede |-> RecoverLede(content)]]

\* lines 242-256: the loop over the files in glob order o, from the k-th
\* on; recs holds each file's FileRecord
RECURSIVE CollectFrom(_, _, _)
CollectFrom(recs, o, k) ==
    IF k > Len(o) THEN [raised |-> FALSE, posts |-> <<>>]
    ELSE LET rec == recs[o[k]]
             rest == CollectFrom(recs, o, k + 1)
         IN  IF rec.kind = "raise" THEN [raised |-> TRUE, posts |-> <<>>]
             ELSE IF rest.raised THEN rest
             ELSE IF rec.kind = "skip" THEN rest
             ELSE [raised |-> FALSE, posts |-> <<rec.post>> \o rest.posts]

collect_existing_posts(exists, recs, o) ==
    IF ~exists THEN [raised |-> FALSE, posts |-> <<>>]
    ELSE CollectFrom(recs, o, 1)

\* [p for p in posts if p["slug"] != slug]
RECURSIVE DropSlug(_, _)
DropSlug(posts, slug) ==
    IF posts = <<>> THEN <<>>
    ELSE (IF Head(posts).slug # slug THEN <<Head(posts)>> ELSE <<>>)
             \o DropSlug(Tail(posts), slug)

\* one insertion of the stable descending sort: p goes after every post
\* whose date is not earlier than its own
InsertDesc(sorted, p) ==
    LET ahead == {k \in 1..Len(sorted) : ~DateBefore(sorted[k].date, p.date)}
        n == IF ahead = {} THEN 0 ELSE CHOOSE x \in ahead : \A y \in ahead : y <= x
    IN  SubSeq(sorted, 1, n) \o <<p>> \o SubSeq(sorted, n + 1, Len(sorted))

RECURSIVE SortFrom(_, _, _)
SortFrom(posts, k, sorted) ==
    IF k > Len(posts) THEN sorted
    ELSE SortFrom(posts, k + 1, InsertDesc(sorted, posts[k]))

\* main without the sort of line 288
SortNewestFirst_Unsorted(posts) == posts

\* posts.sort(key=lambda p: p["date"], reverse=True)
SortNewestFirst(posts) == SortFrom(posts, 1, <<>>)

\* main without the filter of line 286
MergeCurrent_NoFilter(posts, date, slug, lede) ==
    Append(posts, [date |-> date, slug |-> slug, lede |-> lede])

\* lines 286-287
MergeCurrent(posts, date, slug, lede) ==
    Append(DropSlug(posts, slug), [date |-> date, slug |-> slug, lede |-> lede])

Failed(status) ==
    [status |-> status, slug |-> <<>>, lede |-> <<>>, posts |-> <<>>,
     wrote |-> {}, existed |-> FALSE]

\* lines 284-288 with the files yielded in glob order o: what the run
\* ends as (an uncaught ValueError of strptime, or the sorted post list)
Rebuild(recs, o, date, slug, lede, existed) ==
    LET found == collect_existing_posts(TRUE, recs, o)
    IN  IF found.raised
        THEN [status |-> "ValueError", slug |-> slug, lede |-> lede,
              posts |-> <<>>, wrote |-> {"post"}, existed |-> existed]
        ELSE [status |-> "ok", slug |-> slug, lede |-> lede,
              posts |-> SortNewestFirst(
                            MergeCurrent(found.posts, date, slug, lede)),
              wrote |-> {"post", "index"}, existed |-> existed]

\* a run that exits before anything is written
Exits(status) ==
    {[files |-> files, dir_exists |-> dir_exists, index |-> index,
      run |-> Failed(status)]}

\* lines 278-292: the post file is written, then the index is rebuilt from
\* the directory, in one of the orders glob may yield
Publish(date, slug, body_html, lede) ==
    LET written == [s \in DOMAIN files \cup {slug} |->
                       IF s = slug THEN render_post(date, body_html)
                       ELSE files[s]]
        recs == [s \in DOMAIN written |-> FileRecord(s, written[s])]
        ends == {Rebuild(recs, o, date, slug, lede, slug \in DOMAIN files) :
                    o \in GlobOrders(written)}
    IN  {[files |-> written, dir_exists |-> TRUE,
          index |-> IF r.status = "ok" THEN render_index(r.posts) ELSE index,
          run |-> r] : r \in ends}

\* what main() can leave behind, with len(sys.argv) = argc and
\* sys.argv[1] = path: a path that is or is not a file, with the stem of its
\* name and its content
MainResults(argc, path) ==
    IF argc # 2 THEN Exits("usage")
    ELSE IF ~path.isfile THEN Exits("not_found")
    ELSE IF SearchDate(path.stem) = <<>> THEN Exits("no_date")
    ELSE IF ~strptime(SearchDate(path.stem)).ok THEN Exits("ValueError")
    ELSE LET date == strptime(SearchDate(path.stem)).date
         IN  Publish(date, post_slug(date), md_to_html(path.md_text),
                     extract_lede(path.md_text))

Main(argc, path) ==
    \E r \in MainResults(argc, path) :
        /\ files' = r.files
        /\ dir_exists' = r.dir_exists
        /\ index' = r.index
        /\ run' = r.run

---------------------------------------------------------------------------
(* The runs of main(): inputs, initial states, specifications. *)

D_0130 == <<50,48,50,54,45,48,49,45,51,48>>   \* "2026-01-30"
D_0201 == <<50,48,50,54,45,48,50,45,48,49>>   \* "2026-02-01"
D_0218 == <<50,48,50,54,45,48,50,45,49,56>>   \* "2026-02-18"
D_0230 == <<50,48,50,54,45,48,50,45,51,48>>   \* "2026-02-30", no calendar date
BriefPrefix == <<116,117,99,115,111,110,45,98,114,105,101,102,45>>   \* "tucson-brief-"
Notes == <<110,111,116,101,115>>   \* "notes"
DraftPrefix == <<100,114,97,102,116,45>>   \* "draft-"

MdStable == <<42,42,97,46,42,42,32,98>>   \* "**a.** b"
MdAmp == <<42,42,97,38,98,42,42>>   \* "**a&b**"
MdTexts == {MdStable, MdAmp}

\* the briefing files main() can be pointed at
BriefStems ==
    {BriefPrefix \o d : d \in {D_0130, D_0201, D_0218, D_0230}} \cup {Notes}

PathInputs ==
    {[isfile |-> TRUE, stem |-> st, md_text |-> t] : st \in BriefStems, t \in MdTexts}
        \cup {[isfile |-> FALSE, stem |-> BriefPrefix \o D_0218, md_text |-> <<>>]}

ArgCounts == {1, 2, 3}

\* files of posts/ that main() did not write: one without a date in its
\* name, one whose name holds digits in the date pattern that are no date
ForeignStems == {Notes, DraftPrefix \o D_0230}
ForeignContent == <<120>>   \* "x"

NoRun == Failed("none")

IdleText == text = <<>> /\ fn = "idle" /\ result = <<>>

IdleWalk ==
    /\ lines = <<>>
    /\ i = 0
    /\ end = 0
    /\ html_parts = <<>>
    /\ covered = <<>>
    /\ pc = "idle"

Init ==
    /\ files = [s \in {} |-> <<>>]
    /\ dir_exists = FALSE
    /\ index = [exists |-> FALSE, items |-> <<>>]
    /\ run = NoRun
    /\ IdleText
    /\ IdleWalk

InitMixed ==
    /\ \E S \in SUBSET ForeignStems :
           /\ Cardinality(S) <= MaxForeign
           /\ files = [s \in S |-> ForeignContent]
    /\ dir_exists = TRUE
    /\ index = [exists |-> FALSE, items |-> <<>>]
    /\ run = NoRun
    /\ IdleText
    /\ IdleWalk

Next ==
    /\ \E argc \in ArgCounts, path \in PathInputs : Main(argc, path)
    /\ UNCHANGED <<textVars, walkVars>>

Spec == Init /\ [][Next]_vars

SpecMixed == InitMixed /\ [][Next]_vars

FailureStatuses == {"usage", "not_found", "no_date", "ValueError"}

Slugs(posts) == {posts[k].slug : k \in 1..Len(posts)}

\* C1: after every successful run the post list handed to the index
\* renderer holds exactly one record per date identifier (one for each post
\* file, none twice), and the record of the date just rendered carries the
\* freshly extracted lede.
C1_OneRecordPerIdentifier ==
    run.status = "ok" =>
        /\ \A a, b \in 1..Len(run.posts) :
               a # b => run.posts[a].slug # run.posts[b].slug
        /\ Slugs(run.posts) = DOMAIN files
        /\ \E k \in 1..Len(run.posts) :
               run.posts[k].slug = run.slug /\ run.posts[k].lede = run.lede

\* a date that already had a post file is rendered again, beside another
\* post, and the fresh lede differs from the one recovered from the file
C1_Witness ==
    /\ run.status = "ok"
    /\ run.existed
    /\ Len(run.posts) >= 2
    /\ RecoverLede(files[run.slug]) # run.lede

\* C2: a run that ends in a failure leaves posts/ and index.html as they
\* were, and a run that writes the post file also rewrites the index.
C2_FailedRunWritesNothing ==
    [][/\ run'.status \in FailureStatuses =>
              (files' = files /\ index' = index)
       /\ "post" \in run'.wrote => "index" \in run'.wrote]_vars

\* C3: after every successful run adjacent index entries are strictly
\* newest first.
C3_NewestFirst ==
    run.status = "ok" =>
        \A k \in 1..(Len(index.items) - 1) :
            DateBefore(index.items[k + 1].date, index.items[k].date)

\* three posts are listed and the one just rendered is the middle one
C3_Witness ==
    /\ run.status = "ok"
    /\ Len(index.items) = 3
    /\ index.items[2].href = run.slug

\* C10: a run for another date leaves the index lede of an already
\* published post as it was.
C10_LedeStable ==
    [][\A a \in 1..Len(index.items), b \in 1..Len(index'.items) :
           (/\ index.items[a].href = index'.items[b].href
            /\ index'.items[b].href # run'.slug)
               => index'.items[b].lede = index.items[a].lede]_vars

---------------------------------------------------------------------------
(* SpecText: the text functions applied to bounded inputs. *)

Letter == <<97>>   \* "a", standing for the ordinary letters

TextAlphabet == {LT, GT, AMP, QUOT, STAR, Letter[1]}

\* every text over the alphabet up to MaxLen characters
ShortTexts == UNION {[1..n -> TextAlphabet] : n \in 0..MaxLen}

\* n letters, with periods at the positions in dots
Span(n, dots) == [p \in 1..n |-> IF p \in dots THEN DOT ELSE Letter[1]]

\* briefings whose first bold span is about as long as the limit: with a
\* period at the cut, before the end or at the end, alone on the first line
\* or after another line
LongTexts ==
    UNION {{before \o BoldMark \o Span(n, dots) \o BoldMark :
               before \in {<<>>, <<Letter[1], NL>>},
               dots \in SUBSET {LedeCut, n - 1, n}} :
           n \in (LedeMax - 2)..(LedeMax + MaxOver)}

\* post files with and without the lede tag and a strong span
HtmlTexts ==
    {tag \o strong :
        tag \in {<<>>, LedeTagOpen \o <<GT, Letter[1], DOT>> \o PClose},
        strong \in {<<>>} \cup
            UNION {{StrongOpen \o Span(n, dots) \o StrongClose :
                       dots \in {{}, {n}, {n - 1, n}}} : n \in 1..3}}

TextInputs == ShortTexts \cup LongTexts \cup HtmlTexts

IdleSite ==
    /\ files = [s \in {} |-> <<>>]
    /\ dir_exists = FALSE
    /\ index = [exists |-> FALSE, items |-> <<>>]
    /\ run = NoRun

InitText ==
    /\ text \in TextInputs
    /\ fn = "none"
    /\ result = <<>>
    /\ IdleSite
    /\ IdleWalk

ApplyInlineFormat ==
    /\ fn = "none"
    /\ fn' = "inline_format"
    /\ result' = inline_format(text)
    /\ UNCHANGED <<text, siteVars, walkVars>>

ApplyExtractLede ==
    /\ fn = "none"
    /\ fn' = "extract_lede"
    /\ result' = extract_lede(text)
    /\ UNCHANGED <<text, siteVars, walkVars>>

ApplyRecoverLede ==
    /\ fn = "none"
    /\ fn' = "RecoverLede"
    /\ result' = RecoverLede(text)
    /\ UNCHANGED <<text, siteVars, walkVars>>

NextText == ApplyInlineFormat \/ ApplyExtractLede \/ ApplyRecoverLede

SpecText == InitText /\ [][NextText]_vars

\* C4: inline_format leaves no raw quote; every "<" and ">" of its output
\* belongs to a <strong> or </strong> tag; every "&" begins an entity.
C4_EscapingCorrect ==
    fn = "inline_format" =>
        \A p \in 1..Len(result) :
            /\ result[p] # QUOT
            /\ result[p] = LT =>
                   \/ StartsAt(result, StrongOpen, p)
                   \/ StartsAt(result, StrongClose, p)
            /\ result[p] = GT =>
                   \/ StartsAt(result, StrongOpen, p - Len(StrongOpen) + 1)
                   \/ StartsAt(result, StrongClose, p - Len(StrongClose) + 1)
            /\ result[p] = AMP =>
                   \/ StartsAt(result, EntAmp, p)
                   \/ StartsAt(result, EntLt, p)
                   \/ StartsAt(result, EntGt, p)
                   \/ StartsAt(result, EntQuot, p)

\* a special character between bold markers: **"** renders as
\* <strong>&quot;</strong>
C4_Witness ==
    /\ fn = "inline_format"
    /\ text = <<STAR, STAR, QUOT, STAR, STAR>>
    /\ result = StrongOpen \o EntQuot \o StrongClose

\* the first bold span of a briefing: the group of the first line that has
\* a **...** pair (<<>> when no line has one)
RECURSIVE FirstBoldSpanFrom(_, _)
FirstBoldSpanFrom(ls, n) ==
    IF n > Len(ls) THEN <<>>
    ELSE IF SearchBold(ls[n]).found THEN SearchBold(ls[n]).group
    ELSE FirstBoldSpanFrom(ls, n + 1)

FirstBoldSpan(t) == FirstBoldSpanFrom(SplitLines(Strip(t)), 1)

DropOnePeriod(s) == IF EndsWith(s, <<DOT>>) THEN SubSeq(s, 1, Len(s) - 1) ELSE s

\* C6 as claimed: a first bold span longer than 120 characters comes back
\* as its first 117 characters and an ellipsis, with no period before the
\* ellipsis; every lede is at most 120 characters long.
C6_AsClaimed ==
    fn = "extract_lede" =>
        /\ Len(FirstBoldSpan(text)) > LedeMax =>
               /\ result = SubSeq(FirstBoldSpan(text), 1, LedeCut) \o Ellipsis
               /\ result[LedeCut] # DOT
        /\ Len(result) <= LedeMax

\* C6 amended: the limit is applied after one trailing period is removed.
\* A span that is then still longer than 120 characters comes back as its
\* first 117 characters (kept as they are) and an ellipsis, 120 characters
\* in all; otherwise the span without that period comes back whole; every
\* lede is at most 120 characters long.
C6_TruncatedLede ==
    fn = "extract_lede" =>
        LET h == DropOnePeriod(FirstBoldSpan(text))
        IN  /\ Len(h) > LedeMax =>
                   /\ result = SubSeq(FirstBoldSpan(text), 1, LedeCut) \o Ellipsis
                   /\ Len(result) = LedeMax
            /\ Len(h) <= LedeMax => result = h
            /\ Len(result) <= LedeMax

\* a span of 122 characters is cut to 117 and an ellipsis
C6_Witness ==
    /\ fn = "extract_lede"
    /\ Len(FirstBoldSpan(text)) = LedeMax + 2
    /\ Len(result) = LedeMax
    /\ EndsWith(result, Ellipsis)
    /\ result[LedeCut] # DOT

\* C7: the recovered lede is the lede tag's text; else the first strong
\* span without exactly one trailing period; else empty.
C7_RecoveredLede ==
    fn = "RecoverLede" =>
        result = IF SearchLedeTag(text).found THEN SearchLedeTag(text).group
                 ELSE IF SearchStrong(text).found
                 THEN DropOnePeriod(SearchStrong(text).group)
                 ELSE <<>>

---------------------------------------------------------------------------
(* SpecWalk: the line walk of md_to_html, one loop iteration per step. *)

RuleLine == <<HYPHEN, HYPHEN, HYPHEN>>   \* "---"
CitationLine == <<NEWSPAPER, SPACE, 97, PAGE, 98>>   \* a second glyph inside
HeadingLine == <<127963, SPACE, 71>>   \* a pictograph, then " G"
PlainLine == <<97>>   \* "a"
IndentedLine == <<SPACE, 98>>   \* " b"
IndentedFooter == <<SPACE>> \o FooterSaved   \* " Briefing saved:"

LineSet ==
    {<<>>, RuleLine, CitationLine, HeadingLine, PlainLine, IndentedLine,
     FooterNext, IndentedFooter, TitlePrefix}

\* every briefing of one to MaxLines lines
Docs == UNION {{Join(ls, <<NL>>) : ls \in [1..n -> LineSet]} : n \in 1..MaxLines}

\* md_to_html has been called and has not run yet
InitWalk ==
    /\ text = <<>>
    /\ fn = "md_to_html"
    /\ result = <<>>
    /\ lines = <<>>
    /\ i = 0
    /\ end = 0
    /\ html_parts = <<>>
    /\ covered = <<>>
    /\ pc = "start"
    /\ IdleSite

\* lines 33-51: from the entry to the while loop of line 53
WalkEnter(doc) ==
    /\ pc = "start"
    /\ text' = doc
    /\ lines' = SplitLines(Strip(doc))
    /\ i' = StartIndex(lines')
    /\ end' = EndBoundary(lines')
    /\ pc' = "walk"
    /\ UNCHANGED <<html_parts, covered, fn, result, siteVars>>

\* lines 53-96: one iteration of the outer loop that takes the branch kind
WalkStep(kind) ==
    /\ i < end
    /\ LET s == Step(lines, i, end)
       IN  /\ s.kind = kind
           /\ i' = s.next
           /\ html_parts' =
                  IF kind = "blank" THEN html_parts ELSE Append(html_parts, s.html)
           /\ covered' =
                  IF kind = "blank" THEN covered
                  ELSE Append(covered, [kind |-> kind, first |-> s.first, last |-> s.last])
    /\ UNCHANGED <<lines, end, pc, text, fn, result, siteVars>>

WalkBlank == pc = "walk" /\ WalkStep("blank")

WalkRule == pc = "walk" /\ WalkStep("hr")

WalkCitation == pc = "walk" /\ WalkStep("source")

WalkHeading == pc = "walk" /\ WalkStep("h2")

WalkParagraph == pc = "walk" /\ WalkStep("p")

\* lines 53 and 98: the loop condition fails and the parts are joined
WalkExit ==
    /\ pc = "walk"
    /\ i >= end
    /\ pc' = "done"
    /\ result' = Join(html_parts, <<NL>>)
    /\ UNCHANGED <<lines, i, end, html_parts, covered, text, fn, siteVars>>

\* md_to_html is called on some briefing
WalkCall == \E doc \in Docs : WalkEnter(doc)

\* the body of the while loop
WalkBody ==
    \/ WalkBlank
    \/ WalkRule
    \/ WalkCitation
    \/ WalkHeading
    \/ WalkParagraph

NextWalk ==
    \/ WalkCall
    \/ WalkBody
    \/ WalkExit

\* WF_vars(WalkBody) written out: Step is total, so <<WalkBody>>_vars is
\* enabled exactly when the loop condition of line 53 holds
WalkBodyFair ==
    \/ []<>~(pc = "walk" /\ i < end)
    \/ []<><<WalkBody>>_vars

\* the call runs to completion: a single thread that nothing preempts
SpecWalk ==
    /\ InitWalk
    /\ [][NextWalk]_vars
    /\ WF_vars(WalkCall)
    /\ WF_vars(WalkExit)
    /\ WalkBodyFair

\* the trimmed line at 0-based index k
Trimmed(k) == Strip(lines[k + 1])

HasFooterPrefix(k) ==
    \E prefix \in {FooterSaved, FooterFetched, FooterFailed, FooterNext} :
        StartsWith(Trimmed(k), prefix)

\* the start of the contiguous trailing run of footer lines
TrailingRunStart ==
    CHOOSE e \in 0..Len(lines) :
        /\ \A k \in e..(Len(lines) - 1) : HasFooterPrefix(k)
        /\ e > 0 => ~HasFooterPrefix(e - 1)

InSomePart(k) ==
    \E n \in 1..Len(covered) : covered[n].first <= k /\ k <= covered[n].last

\* C5: the end boundary is the start of the contiguous trailing run of
\* lines with a footer prefix; no emitted block holds a line of that run;
\* when the walk is done, every non-blank line between the start index and
\* the boundary is in a block.
C5_FooterBoundary ==
    /\ end = TrailingRunStart
    /\ \A n \in 1..Len(covered) : covered[n].last < end
    /\ pc = "done" =>
           \A k \in StartIndex(lines)..(end - 1) :
               Trimmed(k) # <<>> => InSomePart(k)

\* a footer-prefixed line that a blank line separates from the trailing run
\* is parsed into a block, and the run itself is left out
C5_Witness ==
    /\ pc = "done"
    /\ end < Len(lines)
    /\ \E k \in 0..(end - 1) : HasFooterPrefix(k) /\ InSomePart(k)

\* C8: the text of a citation block is its line without the leading glyph,
\* trimmed, the rest unchanged, then escaped.
C8_CitationText ==
    \A n \in 1..Len(covered) :
        covered[n].kind = "source" =>
            LET line == Trimmed(covered[n].first)
            IN  html_parts[n] =
                    SourceOpen \o escape(Strip(SubSeq(line, 2, Len(line)))) \o PClose

MatchesNoTest(k) ==
    /\ Trimmed(k) # <<>>
    /\ ~RuleRe(Trimmed(k))
    /\ Trimmed(k)[1] \notin {NEWSPAPER, PAGE}
    /\ ~IsHeading(Trimmed(k))

\* the parts emitted so far are in document order, each classified by the
\* first matching test, and a paragraph is a maximal run joined by spaces
WalkInOrder ==
    /\ \A n \in 1..Len(covered) :
           LET c == covered[n]
               l == Trimmed(c.first)
           IN  /\ StartIndex(lines) <= c.first
               /\ c.first <= c.last
               /\ c.last < i
               /\ n > 1 => covered[n - 1].last < c.first
               /\ c.kind = "hr" => c.last = c.first /\ RuleRe(l)
               /\ c.kind = "source" =>
                      /\ c.last = c.first
                      /\ ~RuleRe(l)
                      /\ l[1] \in {NEWSPAPER, PAGE}
               /\ c.kind = "h2" =>
                      /\ c.last = c.first
                      /\ ~RuleRe(l)
                      /\ l[1] \notin {NEWSPAPER, PAGE}
                      /\ IsHeading(l)
               /\ c.kind = "p" =>
                      /\ \A k \in c.first..c.last : MatchesNoTest(k)
                      /\ c.last + 1 < end => ~MatchesNoTest(c.last + 1)
                      /\ html_parts[n] =
                             POpen
                             \o inline_format(Join([k \in 1..(c.last - c.first + 1) |->
                                                       Trimmed(c.first + k - 1)], <<SPACE>>))
                             \o PClose
    /\ Len(html_parts) = Len(covered)
    /\ i <= end \/ i = StartIndex(lines)
    /\ \A k \in StartIndex(lines)..(i - 1) :
           Trimmed(k) # <<>> <=> InSomePart(k)

\* C9: the walk moves strictly forward, its parts are in document order
\* with every non-blank line in exactly one part classified by the first
\* matching test, and it ends at the boundary.
C9_LineWalk ==
    /\ []WalkInOrder
    /\ [][pc = "walk" /\ pc' = "walk" => i' > i]_vars
    /\ <>(pc = "done" /\ (i = end \/ i = StartIndex(lines)))

\* a walk that ended after a two-line paragraph and a citation
C9_Witness ==
    /\ pc = "done"
    /\ Len(covered) = 2
    /\ covered[1].kind = "p"
    /\ covered[1].last = covered[1].first + 1
    /\ covered[2].kind = "source"
    /\ covered[2].first = covered[1].last + 1

===========================================================================
